---- MODULE Spec2Model ----
(***************************************************************************)
(* Model of src/src/lib.rs: the poker hand evaluator.                      *)
(*                                                                         *)
(* A string is a sequence of one-character strings, so that splitting on   *)
(* spaces, token lengths and glyph matching are computed as the code       *)
(* computes them.  A borrowed &str is the index of the hand in the caller's*)
(* slice; the text it refers to is hands[index].                           *)
(***************************************************************************)
EXTENDS Integers, Sequences, FiniteSets, TLC

VARIABLES
    hands,      \* winning_hands: the slice of hand strings passed by the caller
    result,     \* winning_hands: what the call produced
    str_hand,   \* PokerHand::new: the hand string being classified
    hand_type,  \* PokerHand::new: what the classification of str_hand produced
    cmp_in,     \* PokerHand::cmp: three classified hands
    cmp_out,    \* PokerHand::cmp: the orderings computed between them
    pc          \* position of the caller: "start", then "done"

vars == <<hands, result, str_hand, hand_type, cmp_in, cmp_out, pc>>

(***************************************************************************)
(* Program constants                                                       *)
(***************************************************************************)
ACE == 14
KING == 13
QUEEN == 12
JACK == 11

(***************************************************************************)
(* Suit::try_from                                                          *)
(***************************************************************************)
SuitTryFromLenient(s) ==
    CASE s = "C" -> [ok |-> TRUE, suit |-> "Clubs"]
      [] s = "D" -> [ok |-> TRUE, suit |-> "Diamonds"]
      [] s = "H" -> [ok |-> TRUE, suit |-> "Hearts"]
      [] OTHER   -> [ok |-> TRUE, suit |-> "Spades"]

SuitTryFrom(s) ==
    CASE s = "C" -> [ok |-> TRUE, suit |-> "Clubs"]
      [] s = "D" -> [ok |-> TRUE, suit |-> "Diamonds"]
      [] s = "H" -> [ok |-> TRUE, suit |-> "Hearts"]
      [] s = "S" -> [ok |-> TRUE, suit |-> "Spades"]
      [] OTHER   -> [ok |-> FALSE, suit |-> "Invalid Suit"]

(***************************************************************************)
(* Card::new                                                               *)
(***************************************************************************)
\* char::to_digit(10) on the range '2'..='9'
ToDigit(c) ==
    CASE c = "2" -> 2 [] c = "3" -> 3 [] c = "4" -> 4 [] c = "5" -> 5
      [] c = "6" -> 6 [] c = "7" -> 7 [] c = "8" -> 8 [] c = "9" -> 9

\* the match on `value`: 0 stands for the Err("Invalid value") arm
NumericValue(value) ==
    CASE value \in {"2", "3", "4", "5", "6", "7", "8", "9"} -> ToDigit(value)
      [] value = "T" -> 10
      [] value = "J" -> JACK
      [] value = "Q" -> QUEEN
      [] value = "K" -> KING
      [] value = "A" -> ACE
      [] OTHER -> 0

CardErr(msg) == [ok |-> FALSE, err |-> msg, suit |-> "", numeric_value |-> 0]

CardNew(str_card) ==
    LET size == Len(str_card) IN
    IF ~(size \in 2..3) THEN CardErr("Invalid card length")
    ELSE IF size = 3 /\ SubSeq(str_card, 1, 2) # <<"1", "0">> THEN CardErr("Invalid card")
    ELSE
      LET value == IF size = 2 THEN str_card[1] ELSE "T"
          numeric_value == NumericValue(value)
          suit == SuitTryFrom(str_card[size])
      IN  IF numeric_value = 0 THEN CardErr("Invalid value")
          ELSE IF ~suit.ok THEN CardErr(suit.suit)
          ELSE [ok |-> TRUE, err |-> "", suit |-> suit.suit, numeric_value |-> numeric_value]

(***************************************************************************)
(* str::split(' ')                                                         *)
(***************************************************************************)
RECURSIVE SplitFrom(_, _, _)
SplitFrom(s, i, cur) ==
    IF i > Len(s) THEN <<cur>>
    ELSE IF s[i] = " " THEN <<cur>> \o SplitFrom(s, i + 1, <<>>)
    ELSE SplitFrom(s, i + 1, Append(cur, s[i]))

Split(s) == SplitFrom(s, 1, <<>>)

(***************************************************************************)
(* PokerHand::new, first loop: one Card per token, the first rejected token*)
(* makes the whole hand an Err                                             *)
(***************************************************************************)
RECURSIVE ParseFrom(_, _, _)
ParseFrom(toks, i, cards) ==
    IF i > Len(toks) THEN [ok |-> TRUE, cards |-> cards]
    ELSE LET possible_new_card == CardNew(toks[i]) IN
         IF ~possible_new_card.ok THEN [ok |-> FALSE, cards |-> <<>>]
         ELSE ParseFrom(toks, i + 1,
                  Append(cards, [suit |-> possible_new_card.suit,
                                 numeric_value |-> possible_new_card.numeric_value]))

ParseCards(str) == ParseFrom(Split(str), 1, <<>>)

(***************************************************************************)
(* cards.sort_by(|a, b| a.numeric_value.cmp(&b.numeric_value)): a stable   *)
(* sort, equal values keep their input order                               *)
(***************************************************************************)
RECURSIVE InsertByValue(_, _)
InsertByValue(sorted, c) ==
    IF sorted = <<>> THEN <<c>>
    ELSE IF sorted[Len(sorted)].numeric_value <= c.numeric_value THEN Append(sorted, c)
    ELSE Append(InsertByValue(SubSeq(sorted, 1, Len(sorted) - 1), c), sorted[Len(sorted)])

RECURSIVE SortFrom(_, _, _)
SortFrom(cards, i, acc) ==
    IF i > Len(cards) THEN acc
    ELSE SortFrom(cards, i + 1, InsertByValue(acc, cards[i]))

SortByValueNone(cards) == cards

SortByValue(cards) == SortFrom(cards, 1, <<>>)

(***************************************************************************)
(* PokerHand::new, the scan over the sorted cards                          *)
(***************************************************************************)
ScanInit(cards) ==
    [previous_suit |-> cards[1].suit,
     previous_value |-> 0,
     suit_counter |-> 0,
     straight_counter |-> 1,
     starts_at_two |-> FALSE,
     kind_count_map |-> << >>]

\* *kind_count_map.entry(k).or_insert(0) += 1; the map is a function on its keys
MapIncrement(m, k) ==
    IF k \in DOMAIN m THEN [m EXCEPT ![k] = @ + 1]
    ELSE [x \in (DOMAIN m) \cup {k} |-> IF x = k THEN 1 ELSE m[x]]

ScanStep(st, card) ==
    LET same_suit == card.suit = st.previous_suit
        first == st.previous_value = 0
        pv1 == IF first /\ card.numeric_value # 2 THEN card.numeric_value
               ELSE st.previous_value
        sc == IF ~first /\ card.numeric_value = st.previous_value + 1
              THEN st.straight_counter + 1 ELSE st.straight_counter
        pv2 == IF card.numeric_value # pv1 THEN card.numeric_value ELSE pv1
    IN  [previous_suit |-> IF same_suit THEN st.previous_suit ELSE card.suit,
         previous_value |-> pv2,
         suit_counter |-> IF same_suit THEN st.suit_counter + 1 ELSE 0,
         straight_counter |-> sc,
         starts_at_two |-> st.starts_at_two \/ (first /\ card.numeric_value = 2),
         kind_count_map |-> MapIncrement(st.kind_count_map, card.numeric_value)]

RECURSIVE ScanFrom(_, _, _)
ScanFrom(cards, i, st) ==
    IF i > Len(cards) THEN st
    ELSE ScanFrom(cards, i + 1, ScanStep(st, cards[i]))

Scan(cards) == ScanFrom(cards, 1, ScanInit(cards))

(***************************************************************************)
(* PokerHand::is_straight                                                  *)
(***************************************************************************)
is_straight_starting_with_ace(straight_counter, starts_at_two, last_card_numeric_value) ==
    straight_counter = 4 /\ starts_at_two /\ last_card_numeric_value = ACE

is_straight(straight_counter, starts_at_two, last_card_numeric_value) ==
    \/ straight_counter = 5
    \/ is_straight_starting_with_ace(straight_counter, starts_at_two, last_card_numeric_value)

(***************************************************************************)
(* The payload structs and HandType                                        *)
(***************************************************************************)
HighCardData(cards) == [cards |-> cards]

OnePairData(pair_value, remaining_cards) ==
    [pair_value |-> pair_value, remaining_cards |-> remaining_cards]

TwoPairsData(high_pair_value, low_pair_value, remaining_card) ==
    [high_pair_value |-> high_pair_value, low_pair_value |-> low_pair_value,
     remaining_card |-> remaining_card]

ThreeOfAKindData(three_of_a_kind_value, remaining_cards) ==
    [three_of_a_kind_value |-> three_of_a_kind_value, remaining_cards |-> remaining_cards]

StraightData(cards) == [cards |-> cards]

FullHouseData(three_of_a_kind_value, pair_value) ==
    [three_of_a_kind_value |-> three_of_a_kind_value, pair_value |-> pair_value]

FourOfAKindData(four_of_a_kind_value, remaining_card) ==
    [four_of_a_kind_value |-> four_of_a_kind_value, remaining_card |-> remaining_card]

HandType(variant, data) == [variant |-> variant, data |-> data]

\* HandType::rank
HandTypeRank(ht) ==
    CASE ht.variant = "StraightFlush" -> 9
      [] ht.variant = "FourOfAKind" -> 8
      [] ht.variant = "FullHouse" -> 7
      [] ht.variant = "Flush" -> 6
      [] ht.variant = "Straight" -> 5
      [] ht.variant = "ThreeOfAKind" -> 4
      [] ht.variant = "TwoPairs" -> 3
      [] ht.variant = "OnePair" -> 2
      [] ht.variant = "HighCard" -> 1

(***************************************************************************)
(* PokerHand::new, classification.  Outcomes: Ok(hand type), Err, or a     *)
(* panic (index out of bounds).                                            *)
(***************************************************************************)
NewOk(ht) == [tag |-> "Ok", hand_type |-> ht]
\* Err and a panic carry no hand type
NoHandType == HandType("None", [cards |-> <<>>])
NewErr == [tag |-> "Err", hand_type |-> NoHandType]
NewPanic == [tag |-> "Panic", hand_type |-> NoHandType]

Max2(a, b) == IF a >= b THEN a ELSE b
Min2(a, b) == IF a <= b THEN a ELSE b

\* HashMap iteration order is arbitrary.  The loop body does nothing for a key
\* whose count is not 4, 3 or 2, so an iteration order is represented by the
\* order in which the loop meets the keys it acts on.
KeyOrders(kind_count_map) ==
    LET acted == {k \in DOMAIN kind_count_map : kind_count_map[k] \in {2, 3, 4}}
        n == Cardinality(acted)
    IN  {o \in [1..n -> acted] : \A i, j \in 1..n : i # j => o[i] # o[j]}

\* for (key, value) in kind_count_map { ... }: `ret` holds the early return
CountLoopInit ==
    [has_three |-> FALSE, pair_count |-> 0, three_of_a_kind_value |-> 0,
     pairs |-> <<>>, returned |-> FALSE, ret |-> NewErr]

CountLoopStep(st, key, value, sorted_numeric_values) ==
    IF st.returned THEN st
    ELSE IF value = 4 THEN
        LET the_other_card == SelectSeq(sorted_numeric_values, LAMBDA v : v # key)
        IN  [st EXCEPT !.returned = TRUE,
                       !.ret = IF the_other_card = <<>> THEN NewPanic
                               ELSE NewOk(HandType("FourOfAKind",
                                            FourOfAKindData(key, the_other_card[1])))]
    ELSE IF value = 3 THEN
        [st EXCEPT !.has_three = TRUE, !.three_of_a_kind_value = key]
    ELSE IF value = 2 THEN
        [st EXCEPT !.pairs = Append(@, key), !.pair_count = @ + 1]
    ELSE st

RECURSIVE CountLoopFrom(_, _, _, _, _)
CountLoopFrom(order, i, st, kind_count_map, sorted_numeric_values) ==
    IF i > Len(order) THEN st
    ELSE CountLoopFrom(order, i + 1,
             CountLoopStep(st, order[i], kind_count_map[order[i]], sorted_numeric_values),
             kind_count_map, sorted_numeric_values)

\* the part of PokerHand::new after the scan, for one iteration order of the map
Classify(sorted_numeric_values, is_flush, straight, kind_count_map, order) ==
    IF is_flush THEN
        IF straight
        THEN NewOk(HandType("StraightFlush", HighCardData(sorted_numeric_values)))
        ELSE NewOk(HandType("Flush", HighCardData(sorted_numeric_values)))
    ELSE IF straight THEN
        NewOk(HandType("Straight", StraightData(sorted_numeric_values)))
    ELSE
      LET st == CountLoopFrom(order, 1, CountLoopInit, kind_count_map, sorted_numeric_values)
      IN  IF st.returned THEN st.ret
          ELSE IF st.has_three THEN
              IF st.pair_count = 1
              THEN NewOk(HandType("FullHouse",
                          FullHouseData(st.three_of_a_kind_value, st.pairs[1])))
              ELSE NewOk(HandType("ThreeOfAKind",
                          ThreeOfAKindData(st.three_of_a_kind_value,
                              SelectSeq(sorted_numeric_values,
                                        LAMBDA v : v # st.three_of_a_kind_value))))
          ELSE IF st.pair_count = 2 THEN
              LET highest_pair == Max2(st.pairs[1], st.pairs[2])
                  lowest_pair == Min2(st.pairs[1], st.pairs[2])
                  the_other_card == SelectSeq(sorted_numeric_values,
                                        LAMBDA v : v # highest_pair /\ v # lowest_pair)
              IN  IF the_other_card = <<>> THEN NewPanic
                  ELSE NewOk(HandType("TwoPairs",
                              TwoPairsData(highest_pair, lowest_pair, the_other_card[1])))
          ELSE IF st.pair_count = 1 THEN
              NewOk(HandType("OnePair",
                      OnePairData(st.pairs[1],
                          SelectSeq(sorted_numeric_values, LAMBDA v : v # st.pairs[1]))))
          ELSE NewOk(HandType("HighCard", HighCardData(sorted_numeric_values)))

\* cards.iter().map(|c| c.numeric_value).collect()
RECURSIVE NumericValues(_, _)
NumericValues(cards, i) ==
    IF i > Len(cards) THEN <<>>
    ELSE <<cards[i].numeric_value>> \o NumericValues(cards, i + 1)

\* PokerHand::new: every outcome the call can have on str
PokerHandNew(str) ==
    LET parsed == ParseCards(str) IN
    IF ~parsed.ok THEN {NewErr}
    ELSE
      LET cards == SortByValue(parsed.cards)
          st == Scan(cards)
          is_flush == st.suit_counter = 5
          straight == is_straight(st.straight_counter, st.starts_at_two,
                                  cards[Len(cards)].numeric_value)
          sorted_numeric_values == NumericValues(cards, 1)
      IN  {Classify(sorted_numeric_values, is_flush, straight, st.kind_count_map, o) :
              o \in KeyOrders(st.kind_count_map)}

(***************************************************************************)
(* The orderings.  An Ordering is "Less", "Equal" or "Greater"; "Panic" is *)
(* an index out of bounds inside a cmp.                                    *)
(***************************************************************************)
U8Cmp(a, b) == IF a < b THEN "Less" ELSE IF a > b THEN "Greater" ELSE "Equal"

\* impl Ord for HighCardData: for i in (0..self.cards.len()).rev()
RECURSIVE HighCardCmpFrom(_, _, _)
HighCardCmpFrom(self_cards, other_cards, i) ==
    IF i = 0 THEN "Equal"
    ELSE IF i > Len(other_cards) THEN "Panic"
    ELSE IF self_cards[i] # other_cards[i] THEN U8Cmp(self_cards[i], other_cards[i])
    ELSE HighCardCmpFrom(self_cards, other_cards, i - 1)

HighCardDataCmp(self, other) == HighCardCmpFrom(self.cards, other.cards, Len(self.cards))

\* impl Ord for OnePairData
OnePairDataCmp(self, other) ==
    LET cmp_pair_value == U8Cmp(self.pair_value, other.pair_value) IN
    IF cmp_pair_value # "Equal" THEN cmp_pair_value
    ELSE HighCardDataCmp(HighCardData(self.remaining_cards),
                         HighCardData(other.remaining_cards))

\* impl Ord for TwoPairsData
TwoPairsDataCmpNoKicker(self, other) ==
    LET cmp_high_pair_value == U8Cmp(self.high_pair_value, other.high_pair_value) IN
    IF cmp_high_pair_value # "Equal" THEN cmp_high_pair_value
    ELSE U8Cmp(self.low_pair_value, other.low_pair_value)

TwoPairsDataCmp(self, other) ==
    LET cmp_high_pair_value == U8Cmp(self.high_pair_value, other.high_pair_value)
        cmp_low_pair_value == U8Cmp(self.low_pair_value, other.low_pair_value)
    IN  IF cmp_high_pair_value # "Equal" THEN cmp_high_pair_value
        ELSE IF cmp_low_pair_value # "Equal" THEN cmp_low_pair_value
        ELSE U8Cmp(self.remaining_card, other.remaining_card)

\* impl Ord for ThreeOfAKindData
ThreeOfAKindDataCmp(self, other) ==
    LET cmp_value == U8Cmp(self.three_of_a_kind_value, other.three_of_a_kind_value) IN
    IF cmp_value # "Equal" THEN cmp_value
    ELSE HighCardDataCmp(HighCardData(self.remaining_cards),
                         HighCardData(other.remaining_cards))

\* impl Ord for StraightData.  StraightIndexPanics: an index of sv out of its
\* bounds; StraightVec: the vector that cmp compares (self_vec, other_vec)
StraightIndexPanics(sv) ==
    \/ Len(sv) = 0
    \/ sv[1] = 2 /\ sv[Len(sv)] = ACE /\ Len(sv) < 4

StraightVec(sv) ==
    IF sv[1] = 2 /\ sv[Len(sv)] = ACE
    THEN <<1, sv[1], sv[2], sv[3], sv[4]>>
    ELSE sv

StraightDataCmpNoWheel(self, other) ==
    HighCardDataCmp(HighCardData(self.cards), HighCardData(other.cards))

StraightDataCmp(self, other) ==
    IF StraightIndexPanics(self.cards) \/ StraightIndexPanics(other.cards) THEN "Panic"
    ELSE HighCardDataCmp(HighCardData(StraightVec(self.cards)),
                         HighCardData(StraightVec(other.cards)))

\* impl Ord for FullHouseData
FullHouseDataCmp(self, other) ==
    LET cmp_three == U8Cmp(self.three_of_a_kind_value, other.three_of_a_kind_value) IN
    IF cmp_three # "Equal" THEN cmp_three
    ELSE U8Cmp(self.pair_value, other.pair_value)

\* impl Ord for FourOfAKindData
FourOfAKindDataCmp(self, other) ==
    LET cmp == U8Cmp(self.four_of_a_kind_value, other.four_of_a_kind_value) IN
    IF cmp # "Equal" THEN cmp
    ELSE U8Cmp(self.remaining_card, other.remaining_card)

\* #[derive(Ord)] for HandType: the variants in declaration order, then the payload
Discriminant(ht) ==
    CASE ht.variant = "StraightFlush" -> 0
      [] ht.variant = "FourOfAKind" -> 1
      [] ht.variant = "FullHouse" -> 2
      [] ht.variant = "Flush" -> 3
      [] ht.variant = "Straight" -> 4
      [] ht.variant = "ThreeOfAKind" -> 5
      [] ht.variant = "TwoPairs" -> 6
      [] ht.variant = "OnePair" -> 7
      [] ht.variant = "HighCard" -> 8

HandTypeCmp(self, other) ==
    IF Discriminant(self) # Discriminant(other)
    THEN U8Cmp(Discriminant(self), Discriminant(other))
    ELSE CASE self.variant = "StraightFlush" -> HighCardDataCmp(self.data, other.data)
           [] self.variant = "FourOfAKind" -> FourOfAKindDataCmp(self.data, other.data)
           [] self.variant = "FullHouse" -> FullHouseDataCmp(self.data, other.data)
           [] self.variant = "Flush" -> HighCardDataCmp(self.data, other.data)
           [] self.variant = "Straight" -> StraightDataCmp(self.data, other.data)
           [] self.variant = "ThreeOfAKind" -> ThreeOfAKindDataCmp(self.data, other.data)
           [] self.variant = "TwoPairs" -> TwoPairsDataCmp(self.data, other.data)
           [] self.variant = "OnePair" -> OnePairDataCmp(self.data, other.data)
           [] self.variant = "HighCard" -> HighCardDataCmp(self.data, other.data)

\* impl Ord for PokerHand; a PokerHand is [str_hand, hand_type]
PokerHand(ref, ht) == [str_hand |-> ref, hand_type |-> ht]

PokerHandCmp(self, other) ==
    LET rank_cmp == U8Cmp(HandTypeRank(self.hand_type), HandTypeRank(other.hand_type)) IN
    IF rank_cmp # "Equal" THEN rank_cmp
    ELSE HandTypeCmp(self.hand_type, other.hand_type)

(***************************************************************************)
(* winning_hands                                                           *)
(***************************************************************************)
None == [tag |-> "None", list |-> <<>>]
Some(list) == [tag |-> "Some", list |-> list]
Panic == [tag |-> "Panic", list |-> <<>>]

\* for hand in hands { match PokerHand::new(hand) ... }: every outcome of the loop
RECURSIVE ProcessFrom(_, _, _)
ProcessFrom(hs, i, processed_hands) ==
    IF i > Len(hs) THEN {[tag |-> "Ok", processed_hands |-> processed_hands]}
    ELSE UNION {
           IF o.tag = "Err" THEN {[tag |-> "None", processed_hands |-> <<>>]}
           ELSE IF o.tag = "Panic" THEN {[tag |-> "Panic", processed_hands |-> <<>>]}
           ELSE ProcessFrom(hs, i + 1, Append(processed_hands, PokerHand(i, o.hand_type)))
           : o \in PokerHandNew(hs[i]) }

\* processed_hands.sort(): stable, ascending under PokerHand::cmp
RECURSIVE InsertHand(_, _)
InsertHand(sorted, h) ==
    IF sorted = <<>> THEN <<h>>
    ELSE IF PokerHandCmp(h, sorted[Len(sorted)]) # "Less" THEN Append(sorted, h)
    ELSE Append(InsertHand(SubSeq(sorted, 1, Len(sorted) - 1), h), sorted[Len(sorted)])

RECURSIVE SortHandsFrom(_, _, _)
SortHandsFrom(hs, i, acc) ==
    IF i > Len(hs) THEN acc
    ELSE SortHandsFrom(hs, i + 1, InsertHand(acc, hs[i]))

SortHands(hs) == SortHandsFrom(hs, 1, <<>>)

\* the sorted list left in ascending order
ReverseNone(s) == s

\* processed_hands.reverse()
Reverse(s) == [i \in 1..Len(s) |-> s[Len(s) + 1 - i]]

\* the result loop: the highest hand, then each next hand while it compares Equal
RECURSIVE CollectFrom(_, _, _)
CollectFrom(processed_hands, i, res) ==
    IF i > Len(processed_hands) THEN Some(res)
    ELSE LET c == PokerHandCmp(processed_hands[i], processed_hands[1]) IN
         IF c = "Panic" THEN Panic
         ELSE IF c = "Equal"
              THEN CollectFrom(processed_hands, i + 1, Append(res, processed_hands[i].str_hand))
              ELSE Some(res)

Collect(processed_hands) == CollectFrom(processed_hands, 2, <<processed_hands[1].str_hand>>)

\* some comparison between two of the hands indexes out of bounds
CmpCanPanic(processed_hands) ==
    \E i, j \in 1..Len(processed_hands) :
        i # j /\ PokerHandCmp(processed_hands[i], processed_hands[j]) = "Panic"

Arrangements(processed_hands) ==
    LET n == Len(processed_hands) IN
    {[i \in 1..n |-> processed_hands[f[i]]] :
        f \in {g \in [1..n -> 1..n] : \A i, j \in 1..n : i # j => g[i] # g[j]}}

\* sort, reverse and the result loop.  Which pairs slice::sort compares is not
\* specified: when some comparison can panic the sort may panic, or it may
\* avoid that comparison and leave the hands in an order that is not specified.
SortAndCollect(processed_hands) ==
    IF CmpCanPanic(processed_hands)
    THEN {Panic} \cup {Collect(a) : a \in Arrangements(processed_hands)}
    ELSE {Collect(Reverse(SortHands(processed_hands)))}

\* every outcome of winning_hands(hs)
winning_hands(hs) ==
    LET size == Len(hs) IN
    IF size = 0 THEN {None}
    ELSE IF size = 1 THEN {Some(<<1>>)}
    ELSE UNION {
           IF p.tag = "None" THEN {None}
           ELSE IF p.tag = "Panic" THEN {Panic}
           ELSE SortAndCollect(p.processed_hands)
           : p \in ProcessFrom(hs, 1, <<>>) }

(***************************************************************************)
(* The caller's inputs: hand strings in the notation of the card grammar   *)
(***************************************************************************)
\* the rank glyph of a numeric value (ten is written "10")
RankGlyph(v) ==
    CASE v = 2 -> <<"2">> [] v = 3 -> <<"3">> [] v = 4 -> <<"4">> [] v = 5 -> <<"5">>
      [] v = 6 -> <<"6">> [] v = 7 -> <<"7">> [] v = 8 -> <<"8">> [] v = 9 -> <<"9">>
      [] v = 10 -> <<"1", "0">>
      [] v = JACK -> <<"J">> [] v = QUEEN -> <<"Q">> [] v = KING -> <<"K">>
      [] v = ACE -> <<"A">>

Token(v, s) == RankGlyph(v) \o <<s>>

RECURSIVE JoinFrom(_, _)
JoinFrom(toks, i) ==
    IF i > Len(toks) THEN <<>>
    ELSE IF i = Len(toks) THEN toks[i]
    ELSE toks[i] \o <<" ">> \o JoinFrom(toks, i + 1)

\* the tokens separated by single spaces
Join(toks) == JoinFrom(toks, 1)

\* the hand string holding the cards (ranks[i], suits[i]) in this order
HandOf(ranks, suits) == Join([i \in 1..Len(ranks) |-> Token(ranks[i], suits[i])])

\* Well-formed hands: every category, a tie, both wheels, ten written "10"
ValidPool ==
    { HandOf(<<2, 4, 7, 9, 10>>, <<"S", "C", "S", "H", "H">>),      \* "2S 4C 7S 9H 10H"
      HandOf(<<4, 5, 4, 5, 4>>, <<"S", "H", "C", "D", "H">>),       \* "4S 5H 4C 5D 4H"
      HandOf(<<2, 3, 4, 5, 14>>, <<"H", "D", "C", "S", "H">>),      \* "2H 3D 4C 5S AH"
      HandOf(<<3, 4, 5, 6, 7>>, <<"H", "D", "C", "S", "H">>),       \* "3H 4D 5C 6S 7H"
      HandOf(<<2, 3, 4, 5, 14>>, <<"H", "H", "H", "H", "H">>),      \* "2H 3H 4H 5H AH"
      HandOf(<<3, 4, 5, 6, 7>>, <<"S", "S", "S", "S", "S">>),       \* "3S 4S 5S 6S 7S"
      HandOf(<<2, 2, 3, 3, 8>>, <<"H", "D", "H", "D", "H">>),       \* "2H 2D 3H 3D 8H"
      HandOf(<<3, 8, 2, 3, 2>>, <<"C", "D", "C", "S", "S">>),       \* "3C 8D 2C 3S 2S"
      HandOf(<<2, 2, 4, 4, 3>>, <<"S", "C", "S", "C", "S">>),       \* "2S 2C 4S 4C 3S"
      HandOf(<<2, 3, 4, 13, 14>>, <<"D", "C", "S", "H", "D">>),     \* "2D 3C 4S KH AD"
      HandOf(<<5, 5, 7, 9, 13>>, <<"H", "D", "S", "C", "D">>),      \* "5H 5D 7S 9C KD"
      HandOf(<<9, 9, 9, 2, 4>>, <<"H", "D", "S", "C", "D">>),       \* "9H 9D 9S 2C 4D"
      HandOf(<<7, 7, 7, 7, 2>>, <<"H", "D", "S", "C", "D">>),       \* "7H 7D 7S 7C 2D"
      HandOf(<<2, 5, 8, 11, 13>>, <<"D", "D", "D", "D", "D">>) }    \* "2D 5D 8D JD KD"

\* Hands of valid tokens that do not split into five of them
MiscountedPool ==
    { HandOf(<<2, 2, 2>>, <<"H", "D", "S">>),                       \* "2H 2D 2S"
      HandOf(<<2, 2, 2, 2>>, <<"H", "D", "S", "C">>),               \* "2H 2D 2S 2C"
      HandOf(<<4, 5, 6, 8>>, <<"D", "S", "S", "D">>) }              \* "4D 5S 6S 8D"

\* Hands holding a token that Card::new rejects: a suit glyph, a rank glyph, a
\* three-character token that does not start with "10", an empty token
RejectedPool ==
    { Join(<< <<"4", "D">>, <<"5", "S">>, <<"6", "S">>, <<"8", "D">>, <<"3", "X">> >>),
      Join(<< <<"4", "D">>, <<"5", "S">>, <<"1", "S">>, <<"8", "D">>, <<"3", "C">> >>),
      Join(<< <<"4", "D">>, <<"1", "1", "S">>, <<"6", "S">>, <<"8", "D">>, <<"3", "C">> >>),
      Join(<< <<"4", "D">>, <<"5", "S">>, <<"6", "S">>, <<>>, <<"8", "D">>, <<"3", "C">> >>) }

HandPool == ValidPool \cup MiscountedPool \cup RejectedPool

\* the longest slice of hands passed to winning_hands
MaxBatch == 3

Batches == UNION {[1..n -> HandPool] : n \in 0..MaxBatch}

Pending == [tag |-> "Pending", list |-> <<>>]

(***************************************************************************)
(* Spec: a caller passes a slice of hands to winning_hands                 *)
(***************************************************************************)
Init ==
    /\ hands \in Batches
    /\ result = Pending
    /\ str_hand = <<>>
    /\ hand_type = NewErr
    /\ cmp_in = <<>>
    /\ cmp_out = <<>>
    /\ pc = "start"

WinningHands ==
    /\ pc = "start"
    /\ \E r \in winning_hands(hands) : result' = r
    /\ pc' = "done"
    /\ UNCHANGED <<hands, str_hand, hand_type, cmp_in, cmp_out>>

Next == WinningHands

Spec == Init /\ [][Next]_vars

(***************************************************************************)
(* SpecCmp: three hands of five valid cards are classified and compared    *)
(***************************************************************************)
Mixed == <<"H", "D", "C", "S", "H">>
Hearts == <<"H", "H", "H", "H", "H">>

\* every run of five consecutive ranks, in mixed suits
RunHands == {HandOf([i \in 1..5 |-> lo + i - 1], Mixed) : lo \in 2..10}

\* Hands of every category that differ at each level of the tie-break; the
\* wheel and the hands that start at two and end with the ace
CmpPool ==
    RunHands \cup
    { HandOf(<<2, 3, 4, 5, 14>>, Mixed),      HandOf(<<14, 5, 4, 3, 2>>, <<"S", "C", "D", "H", "C">>),
      HandOf(<<2, 3, 4, 13, 14>>, Mixed),     HandOf(<<2, 3, 12, 13, 14>>, Mixed),
      HandOf(<<2, 11, 12, 13, 14>>, Mixed),   HandOf(<<2, 3, 4, 6, 14>>, Mixed),
      HandOf(<<2, 4, 7, 9, 10>>, Mixed),      HandOf(<<10, 9, 7, 4, 2>>, <<"S", "C", "D", "H", "C">>),
      HandOf(<<3, 4, 7, 9, 10>>, Mixed),      HandOf(<<3, 4, 5, 6, 8>>, Mixed),
      HandOf(<<5, 5, 7, 9, 13>>, Mixed),      HandOf(<<5, 5, 7, 9, 12>>, Mixed),
      HandOf(<<5, 5, 6, 9, 13>>, Mixed),      HandOf(<<6, 6, 2, 3, 4>>, Mixed),
      HandOf(<<2, 2, 3, 3, 8>>, Mixed),       HandOf(<<3, 8, 2, 3, 2>>, <<"C", "D", "C", "S", "S">>),
      HandOf(<<2, 2, 3, 3, 9>>, Mixed),       HandOf(<<2, 2, 4, 4, 3>>, Mixed),
      HandOf(<<3, 3, 4, 4, 2>>, Mixed),
      HandOf(<<9, 9, 9, 2, 4>>, Mixed),       HandOf(<<9, 9, 9, 3, 4>>, Mixed),
      HandOf(<<9, 9, 9, 2, 5>>, Mixed),       HandOf(<<10, 10, 10, 2, 3>>, Mixed),
      HandOf(<<2, 5, 8, 11, 13>>, Hearts),    HandOf(<<3, 5, 8, 11, 13>>, Hearts),
      HandOf(<<2, 5, 8, 11, 14>>, Hearts),    HandOf(<<2, 3, 4, 6, 14>>, Hearts),
      HandOf(<<4, 4, 4, 5, 5>>, Mixed),       HandOf(<<4, 4, 5, 5, 5>>, Mixed),
      HandOf(<<4, 4, 4, 6, 6>>, Mixed),
      HandOf(<<7, 7, 7, 7, 2>>, <<"H", "D", "C", "S", "D">>),
      HandOf(<<7, 7, 7, 7, 3>>, <<"H", "D", "C", "S", "D">>),
      HandOf(<<8, 8, 8, 8, 2>>, <<"H", "D", "C", "S", "D">>),
      HandOf(<<2, 3, 4, 5, 14>>, Hearts),     HandOf(<<2, 3, 4, 5, 6>>, Hearts),
      HandOf(<<3, 4, 5, 6, 7>>, Hearts),      HandOf(<<2, 3, 4, 13, 14>>, Hearts),
      <<"T", "H", " ", "J", "H", " ", "Q", "H", " ", "K", "H", " ", "A", "H">> }

InitCmp ==
    /\ cmp_in \in [1..3 -> CmpPool]
    /\ cmp_out = <<>>
    /\ hands = <<>>
    /\ result = Pending
    /\ str_hand = <<>>
    /\ hand_type = NewErr
    /\ pc = "start"

\* PokerHand::new on each hand, then PokerHand::cmp between them
Compare ==
    /\ pc = "start"
    /\ \E a \in PokerHandNew(cmp_in[1]), b \in PokerHandNew(cmp_in[2]),
          c \in PokerHandNew(cmp_in[3]) :
          /\ a.tag = "Ok" /\ b.tag = "Ok" /\ c.tag = "Ok"
          /\ LET pa == PokerHand(1, a.hand_type)
                 pb == PokerHand(2, b.hand_type)
                 pcc == PokerHand(3, c.hand_type)
             IN  cmp_out' = [a |-> a.hand_type, b |-> b.hand_type, c |-> c.hand_type,
                             ab |-> PokerHandCmp(pa, pb), ba |-> PokerHandCmp(pb, pa),
                             bc |-> PokerHandCmp(pb, pcc), ac |-> PokerHandCmp(pa, pcc)]
    /\ pc' = "done"
    /\ UNCHANGED <<cmp_in, hands, result, str_hand, hand_type>>

NextCmp == Compare

SpecCmp == InitCmp /\ [][NextCmp]_vars

(***************************************************************************)
(* SpecClassify: a hand of five valid cards is classified, then its tokens *)
(* are reordered and the hand is classified again                         *)
(***************************************************************************)
\* the ranks dealt are 2..MaxLow, the king and the ace
MaxLow == 6

DealtRanks == (2..MaxLow) \cup {KING, ACE}

NearFlush == <<"D", "H", "H", "H", "H">>

\* the hands dealt, ranks ascending: no card twice
DealtHands ==
    LET seqs == {r \in [1..5 -> DealtRanks] : \A i \in 1..4 : r[i] <= r[i + 1]}
        distinct(r, from) == \A i \in from..4 : r[i] < r[i + 1]
    IN  {HandOf(r, Mixed) : r \in {q \in seqs : q[1] # q[5]}}
        \cup {HandOf(r, Hearts) : r \in {q \in seqs : distinct(q, 1)}}
        \cup {HandOf(r, NearFlush) : r \in {q \in seqs : distinct(q, 2)}}

InitClassify ==
    /\ str_hand \in DealtHands
    /\ hand_type = NewErr
    /\ hands = <<>>
    /\ result = Pending
    /\ cmp_in = <<>>
    /\ cmp_out = <<>>
    /\ pc = "start"

\* PokerHand::new(str_hand)
New ==
    /\ pc = "start"
    /\ hand_type' \in PokerHandNew(str_hand)
    /\ pc' = "classified"
    /\ UNCHANGED <<str_hand, hands, result, cmp_in, cmp_out>>

\* the tokens at positions i and i + 1 exchanged
SwapTokens(str, i) ==
    LET toks == Split(str) IN
    Join(SubSeq(toks, 1, i - 1) \o <<toks[i + 1], toks[i]>> \o SubSeq(toks, i + 2, Len(toks)))

\* the caller reorders the cards of the hand and calls PokerHand::new again
Reorder ==
    /\ pc = "classified"
    /\ \E i \in 1..4 :
          /\ str_hand' = SwapTokens(str_hand, i)
          /\ hand_type' \in PokerHandNew(str_hand')
    /\ UNCHANGED <<pc, hands, result, cmp_in, cmp_out>>

NextClassify == New \/ Reorder

SpecClassify == InitClassify /\ [][NextClassify]_vars

(***************************************************************************)
(* Vocabulary of the claims                                                *)
(***************************************************************************)
RankGlyphs == {"2", "3", "4", "5", "6", "7", "8", "9", "T", "J", "Q", "K", "A"}
SuitGlyphs == {"C", "D", "H", "S"}

\* a token of the card grammar: a rank glyph (or "10") followed by a suit glyph
GrammarToken(tok) ==
    \/ Len(tok) = 2 /\ tok[1] \in RankGlyphs /\ tok[2] \in SuitGlyphs
    \/ Len(tok) = 3 /\ tok[1] = "1" /\ tok[2] = "0" /\ tok[3] \in SuitGlyphs

HasRejectedToken(h) == \E i \in 1..Len(Split(h)) : ~GrammarToken(Split(h)[i])

\* a hand string of exactly five tokens of the grammar
FiveValid(h) == Len(Split(h)) = 5 /\ ~HasRejectedToken(h)

FiveValidHands == {h \in HandPool : FiveValid(h)}
RejectedHands == {h \in HandPool : HasRejectedToken(h)}

\* the classification of each hand string of the pool, computed once
Classified == [h \in HandPool |-> PokerHandNew(h)]

\* the classification of a hand string of five valid cards
TypeOf(h) == (CHOOSE o \in Classified[h] : TRUE).hand_type

\* the ranks and suits written in a hand string
RanksOf(h) == {ParseCards(h).cards[i].numeric_value : i \in 1..Len(ParseCards(h).cards)}
SuitsOf(h) == {ParseCards(h).cards[i].suit : i \in 1..Len(ParseCards(h).cards)}

WheelRanks == {2, 3, 4, 5, ACE}
IsRun(ranks) == Cardinality(ranks) = 5 /\ \E lo \in 2..10 : ranks = lo..(lo + 4)

Done == pc = "done"
AllFiveValid == \A i \in 1..Len(hands) : hands[i] \in FiveValidHands

\* the positions of the hands that no hand of the batch beats
BestPositions ==
    LET n == Len(hands)
        ph == [i \in 1..n |-> PokerHand(i, TypeOf(hands[i]))]
    IN  {i \in 1..n : \A j \in 1..n : PokerHandCmp(ph[i], ph[j]) \in {"Greater", "Equal"}}

ListSet(list) == {list[k] : k \in 1..Len(list)}

(***************************************************************************)
(* Claims about winning_hands (specification Spec)                         *)
(***************************************************************************)
\* C1: for a batch of two or more hands of five valid cards each, winning_hands
\* returns Some(W) where W holds exactly the hands that compare Equal to the
\* maximum of the batch, each once per occurrence in the input, and nothing else.
C1_WinnersAreTheBest ==
    (Done /\ Len(hands) >= 2 /\ AllFiveValid) =>
        LET best == BestPositions IN
        /\ result.tag = "Some"
        /\ ListSet(result.list) = best
        /\ Len(result.list) = Cardinality(best)
        /\ \A k \in 1..Len(result.list) : result.list[k] \in 1..Len(hands)

C1_Witness ==
    /\ Done /\ Len(hands) = 3 /\ AllFiveValid
    /\ result.tag = "Some" /\ Len(result.list) = 2
    /\ \E i \in 1..3 : i \notin ListSet(result.list)

\* C2: winners are returned in their original relative input order: a winner
\* from an earlier input position comes before a winner from a later one.
C2_WinnersInInputOrder ==
    (Done /\ Len(hands) >= 2 /\ AllFiveValid /\ result.tag = "Some") =>
        \A k, l \in 1..Len(result.list) : k < l => result.list[k] < result.list[l]

\* C3: a hand that does not split into exactly five card tokens makes
\* winning_hands return None for the whole batch, also when every other hand of
\* the batch is valid.
C3_MiscountedHandGivesNone ==
    (/\ Done /\ Len(hands) >= 2
     /\ \E i \in 1..Len(hands) :
            /\ Len(Split(hands[i])) # 5 /\ hands[i] \notin RejectedHands
            /\ \A j \in 1..Len(hands) : j # i => hands[j] \in FiveValidHands)
        => result.tag = "None"

\* C4 as stated: for a non-empty batch of any size, a hand holding a token that
\* the card parser rejects makes winning_hands return None.
C4_RejectedTokenGivesNone_AnySize ==
    (Done /\ Len(hands) >= 1 /\ \E i \in 1..Len(hands) : hands[i] \in RejectedHands)
        => result.tag = "None"

\* a hand placed before the first hand with a rejected token aborts PokerHand::new
AbortsBeforeRejected ==
    \E i \in 1..Len(hands) :
        /\ \A j \in 1..i : hands[j] \notin RejectedHands
        /\ \E o \in Classified[hands[i]] : o.tag = "Panic"

\* C4 as amended: for a batch of two or more hands, a hand holding a rejected
\* token means that no winner list is returned, and the result is None unless
\* the classification of an earlier hand aborts the call.
C4_RejectedTokenGivesNone ==
    (Done /\ Len(hands) >= 2 /\ \E i \in 1..Len(hands) : hands[i] \in RejectedHands)
        => /\ result.tag # "Some"
           /\ ~AbortsBeforeRejected => result.tag = "None"

C4_Witness ==
    /\ Done /\ Len(hands) = 3
    /\ hands[1] \in FiveValidHands /\ hands[2] \in FiveValidHands
    /\ hands[3] \in RejectedHands
    /\ result.tag = "None"

\* C5: whatever the batch, the call completes and returns None or Some(list);
\* no step aborts with an index out of bounds.
C5_NeverPanics == Done => result.tag \in {"None", "Some"}

IsStraightFlushWheel(h) == RanksOf(h) = WheelRanks /\ Cardinality(SuitsOf(h)) = 1
IsStraightFlushRun(h) == IsRun(RanksOf(h)) /\ Cardinality(SuitsOf(h)) = 1

\* C6: in a batch of valid hands holding a wheel straight flush and a straight
\* flush that is not the wheel, only hands that are not the wheel are returned.
C6_WheelStraightFlushLoses ==
    (/\ Done /\ Len(hands) >= 2 /\ AllFiveValid
     /\ \E i \in 1..Len(hands) : IsStraightFlushWheel(hands[i])
     /\ \E j \in 1..Len(hands) : IsStraightFlushRun(hands[j]))
        => /\ result.tag = "Some"
           /\ \A k \in 1..Len(result.list) : ~IsStraightFlushWheel(hands[result.list[k]])

(***************************************************************************)
(* Claims about PokerHand::cmp (specification SpecCmp)                     *)
(***************************************************************************)
\* hands of the pool whose ranks are {2,3,4,5,14}, in more than one suit
MixedWheels == {h \in CmpPool : RanksOf(h) = WheelRanks /\ Cardinality(SuitsOf(h)) > 1}
WheelRankHands == {h \in CmpPool : RanksOf(h) = WheelRanks}

LowerThanStraight == {"ThreeOfAKind", "TwoPairs", "OnePair", "HighCard"}

\* C7: a mixed-suit hand with ranks {2,3,4,5,14} is classified as Straight,
\* compares strictly below every hand of other ranks classified as Straight,
\* and strictly above every hand of a lower category.
C7_WheelIsLowestStraight ==
    (Done /\ cmp_in[1] \in MixedWheels) =>
        /\ cmp_out.a.variant = "Straight"
        /\ (cmp_out.b.variant = "Straight" /\ cmp_in[2] \notin WheelRankHands)
              => (cmp_out.ab = "Less" /\ cmp_out.ba = "Greater")
        /\ cmp_out.b.variant \in LowerThanStraight
              => (cmp_out.ab = "Greater" /\ cmp_out.ba = "Less")

C7_Witness ==
    /\ Done /\ cmp_in[1] \in MixedWheels
    /\ cmp_out.b = HandType("Straight", StraightData(<<3, 4, 5, 6, 7>>))
    /\ cmp_out.ab = "Less"
    /\ cmp_out.c.variant = "ThreeOfAKind"
    /\ cmp_out.ac = "Greater"

\* the category rank of the specification's table (9 is best)
CategoryRank(variant) ==
    CASE variant = "StraightFlush" -> 9 [] variant = "FourOfAKind" -> 8
      [] variant = "FullHouse" -> 7     [] variant = "Flush" -> 6
      [] variant = "Straight" -> 5      [] variant = "ThreeOfAKind" -> 4
      [] variant = "TwoPairs" -> 3      [] variant = "OnePair" -> 2
      [] variant = "HighCard" -> 1

Flip(o) == CASE o = "Less" -> "Greater" [] o = "Greater" -> "Less" [] OTHER -> o

\* C8: PokerHand::cmp is a total preorder over the classifications of valid
\* hands: it always yields Less, Equal or Greater, cmp(B,A) is the reverse of
\* cmp(A,B), it is transitive, the higher category rank wins whatever the
\* payloads, and it yields Equal exactly for the same category and payload.
C8_TotalPreorder ==
    Done =>
        /\ {cmp_out.ab, cmp_out.ba, cmp_out.bc, cmp_out.ac} \subseteq {"Less", "Equal", "Greater"}
        /\ cmp_out.ba = Flip(cmp_out.ab)
        /\ (cmp_out.ab \in {"Less", "Equal"} /\ cmp_out.bc \in {"Less", "Equal"})
              => cmp_out.ac = IF cmp_out.ab = "Equal" /\ cmp_out.bc = "Equal"
                              THEN "Equal" ELSE "Less"
        /\ (cmp_out.ab \in {"Greater", "Equal"} /\ cmp_out.bc \in {"Greater", "Equal"})
              => cmp_out.ac = IF cmp_out.ab = "Equal" /\ cmp_out.bc = "Equal"
                              THEN "Equal" ELSE "Greater"
        /\ CategoryRank(cmp_out.a.variant) > CategoryRank(cmp_out.b.variant)
              => cmp_out.ab = "Greater"
        /\ (cmp_out.ab = "Equal") <=> (cmp_out.a = cmp_out.b)

C8_Witness ==
    /\ Done
    /\ cmp_out.a.variant = "TwoPairs" /\ cmp_out.b.variant = "TwoPairs"
    /\ cmp_out.c.variant = "TwoPairs"
    /\ cmp_out.a.data.high_pair_value = cmp_out.b.data.high_pair_value
    /\ cmp_out.a.data.low_pair_value = cmp_out.b.data.low_pair_value
    /\ cmp_out.ab = "Less" /\ cmp_out.bc = "Less" /\ cmp_out.ac = "Less"

(***************************************************************************)
(* Claims about PokerHand::new (specification SpecClassify)                *)
(***************************************************************************)
IsClassified == pc = "classified"

\* C9: a hand of five valid cards gets exactly one variant and payload, and
\* gets the same one however its five tokens are ordered.
C9_ClassificationIgnoresOrder ==
    /\ [](IsClassified => (hand_type.tag = "Ok" /\ PokerHandNew(str_hand) = {hand_type}))
    /\ [][IsClassified => hand_type' = hand_type]_vars

C9_Witness ==
    /\ IsClassified
    /\ str_hand \notin DealtHands
    /\ hand_type.hand_type.variant = "FullHouse"
    /\ ParseCards(str_hand).cards[1].numeric_value > ParseCards(str_hand).cards[5].numeric_value

\* C10: the hand is classified as Straight or StraightFlush exactly when its
\* ranks are five consecutive integers or are exactly {2,3,4,5,14}.
C10_StraightTestExact ==
    (IsClassified /\ hand_type.tag = "Ok") =>
        (hand_type.hand_type.variant \in {"Straight", "StraightFlush"}
            <=> (IsRun(RanksOf(str_hand)) \/ RanksOf(str_hand) = WheelRanks))

====
